---- MODULE Spec2Model ----
(***************************************************************************)
(* A model of the sip user-space network stack: the ARP cache              *)
(* (src/src/arp.rs), the device receive path (src/src/dev.rs), the ARP     *)
(* protocol handlers (src/src/arp.rs) and link output (src/src/eth.rs),    *)
(* and of the threads of the ping tool (src/bin/ping.rs).                  *)
(*                                                                         *)
(* Time is counted in minutes.  An address is the tuple of its octets.     *)
(***************************************************************************)
EXTENDS Integers, Sequences, FiniteSets, TLC

VARIABLES
    tbl,    \* ARP_TBL: the array of ARPRecord
    clock,  \* what UtcDateTime::now() returns, in minutes; in the ping tool,
            \* what timestamp_now() returned last
    last,   \* the latest call: its arguments, its result, what it transmitted
    cli,      \* ping: WND and TIMEOUT_MILIS, set from the command line
    stats,    \* ping: the StatsGroupRaw behind the mutex, and the mutex
    ctlsigs,  \* ping: the SignalSet of ControlSignals
    thr,      \* ping: where the send, receive, signal and main threads are
    hist      \* ping: what became of the requests and replies, for the
              \* properties

vars == <<tbl, clock, last, cli, stats, ctlsigs, thr, hist>>

\* the state of the ping tool
pingvars == <<cli, stats, ctlsigs, thr, hist>>

\* the ping tool is not running
PingOff ==
    /\ cli = <<>>
    /\ stats = <<>>
    /\ ctlsigs = {}
    /\ thr = <<>>
    /\ hist = <<>>

----------------------------------------------------------------------------
(* Program constants *)

ARP_TBL_SZ == 10

ARPLIVE == 10

U16_MAX == 65535

----------------------------------------------------------------------------
(* Bounds of the model *)

\* slots of the table in the specification of arbitrary cache calls
TblSz == 2

\* the clock advances at most this many times
MaxTicks == 2

\* no cache call is made once a valid record has this age
MaxAge == 2

----------------------------------------------------------------------------
(* Addresses *)

\* Ipv4Addr: its four octets
Ipv4(a, b, c, d) == <<a, b, c, d>>

\* Mac: its six octets; the addresses of the model differ in the first and
\* the last
Mac(hi, lo) == <<hi, 0, 0, 0, 0, lo>>

\* Mac::default()
MacDefault == Mac(0, 0)

\* the clock advances in steps of the liveness window, so that a record is
\* seen exactly ARPLIVE old (still live) and older (expired)
TimeStep == ARPLIVE

MaxTime == MaxTicks * TimeStep

\* IP addresses of the cache calls
CacheIPs == {Ipv4(10, 0, 0, i) : i \in 1..3}

\* hardware addresses of the cache calls
CacheMacs == {Mac(2, 1), Mac(2, 2)}

----------------------------------------------------------------------------
(* ARPRecord, ARPRecTbl *)

DefaultRecord ==
    [is_valid |-> FALSE, age |-> 0, ip |-> Ipv4(0, 0, 0, 0),
     mac |-> MacDefault, ctime |-> 0]

NewTbl(n) == [i \in 1..n |-> DefaultRecord]

Slots(t) == 1..Len(t)

ValidSlots(t) == {i \in Slots(t) : t[i].is_valid}

\* Expired with the operands of the comparison exchanged
ExpiredSwapped(rec, now) == now + ARPLIVE < rec.ctime

\* rec.ctime + ARPLIVE < now
Expired(rec, now) == rec.ctime + ARPLIVE < now

\* rec.age += 1 in wrapping arithmetic, without the comparison
AgeIncWraps(age) == (age + 1) % (U16_MAX + 1)

\* if rec.age < u16::MAX { rec.age += 1 }
AgeInc(age) == IF age < U16_MAX THEN age + 1 ELSE age

\* the match without `rec.age = 0`
FoundKeepsAge(rec, now) == rec

\* the match taking the time of the lookup as the record's timestamp
FoundTouched(rec, now) == [rec EXCEPT !.age = 0, !.ctime = now]

\* the record get_mut_and_update returns at time now: `rec.age = 0`, the
\* timestamp is not written
Found(rec, now) == [rec EXCEPT !.age = 0]

\* The scan of get_mut_and_update from slot i on: invalid records are
\* skipped, expired ones invalidated, a match has its age reset and ends the
\* scan, every other record ages.  hit is the slot returned, 0 for None.
RECURSIVE ScanFrom(_, _, _, _)
ScanFrom(t, i, ip, now) ==
    IF i > Len(t) THEN [tbl |-> t, hit |-> 0]
    ELSE IF ~t[i].is_valid THEN ScanFrom(t, i + 1, ip, now)
    ELSE IF Expired(t[i], now)
        THEN ScanFrom([t EXCEPT ![i].is_valid = FALSE], i + 1, ip, now)
    ELSE IF t[i].ip = ip
        THEN [tbl |-> [t EXCEPT ![i] = Found(@, now)], hit |-> i]
    ELSE ScanFrom([t EXCEPT ![i].age = AgeInc(@)], i + 1, ip, now)

\* The scan without `rec.is_valid = false`: an expired record is skipped and
\* stays valid
RECURSIVE ScanKeepsExpired(_, _, _, _)
ScanKeepsExpired(t, i, ip, now) ==
    IF i > Len(t) THEN [tbl |-> t, hit |-> 0]
    ELSE IF ~t[i].is_valid \/ Expired(t[i], now)
        THEN ScanKeepsExpired(t, i + 1, ip, now)
    ELSE IF t[i].ip = ip
        THEN [tbl |-> [t EXCEPT ![i] = Found(@, now)], hit |-> i]
    ELSE ScanKeepsExpired([t EXCEPT ![i].age = AgeInc(@)], i + 1, ip, now)

get_mut_and_update_keeps_expired(t, ip, now) == ScanKeepsExpired(t, 1, ip, now)

get_mut_and_update(t, ip, now) == ScanFrom(t, 1, ip, now)

\* rfind in the place of find: the last invalid slot
LastInvalid(t) ==
    CHOOSE i \in Slots(t) :
        /\ ~t[i].is_valid
        /\ \A j \in Slots(t) : j > i => t[j].is_valid

\* self.iter_mut().find(|rec| !rec.is_valid): the first invalid slot
FirstInvalid(t) ==
    CHOOSE i \in Slots(t) :
        /\ ~t[i].is_valid
        /\ \A j \in Slots(t) : j < i => t[j].is_valid

\* min_by_key in the place of max_by_key
MinByKeyAge(t) ==
    CHOOSE i \in Slots(t) :
        /\ \A j \in Slots(t) : t[j].age >= t[i].age
        /\ \A j \in Slots(t) : j < i => t[j].age > t[i].age

\* the first of several equally maximal elements in the place of the last
MaxByKeyAgeFirst(t) ==
    CHOOSE i \in Slots(t) :
        /\ \A j \in Slots(t) : t[j].age <= t[i].age
        /\ \A j \in Slots(t) : j < i => t[j].age < t[i].age

\* self.iter_mut().max_by_key(|rec| rec.age): Iterator::max_by_key returns
\* the last of several equally maximal elements
MaxByKeyAge(t) ==
    CHOOSE i \in Slots(t) :
        /\ \A j \in Slots(t) : t[j].age <= t[i].age
        /\ \A j \in Slots(t) : j > i => t[j].age < t[i].age

\* The slot insert writes when the lookup found nothing
DestSlot(t) ==
    IF \E i \in Slots(t) : ~t[i].is_valid THEN FirstInvalid(t)
    ELSE MaxByKeyAge(t)

\* The record insert writes on the not-found path
FreshRecord(ip, mac, now) ==
    [is_valid |-> TRUE, age |-> 0, ip |-> ip, mac |-> mac, ctime |-> now]

\* The found path without `rec.mac = mac`
RenewedKeepsMac(rec, mac, now) == [rec EXCEPT !.ctime = now]

\* The record insert leaves on the found path
Renewed(rec, mac, now) == [rec EXCEPT !.mac = mac, !.ctime = now]

\* insert: now is read first, the lookup reads the clock again (now2)
insert(t, ip, mac, now, now2) ==
    LET r == get_mut_and_update(t, ip, now2) IN
    IF r.hit # 0
        THEN [tbl |-> [r.tbl EXCEPT ![r.hit] = Renewed(@, mac, now)],
              hit |-> r.hit, slot |-> r.hit]
    ELSE LET s == DestSlot(r.tbl) IN
         [tbl |-> [r.tbl EXCEPT ![s] = FreshRecord(ip, mac, now)],
          hit |-> 0, slot |-> s]

----------------------------------------------------------------------------
(* The cache under arbitrary calls *)

NoCall == [op |-> "none"]

\* ages stay below the bound of the model
AgeBounded == \A i \in ValidSlots(tbl) : tbl[i].age < MaxAge

\* the values the clock may show at a later read within one call
LaterReads == {clock} \cup {n \in {clock + TimeStep} : n <= MaxTime}

InitTbl ==
    /\ tbl = NewTbl(TblSz)
    /\ clock = 0
    /\ last = NoCall
    /\ PingOff

\* time passes between calls
Tick ==
    /\ clock + TimeStep <= MaxTime
    /\ clock' = clock + TimeStep
    /\ UNCHANGED <<tbl, last>>
    /\ UNCHANGED pingvars

\* whether the latest call was an insert of ip made at most ARPLIVE before now
RenewsLast(ip, now) ==
    /\ last.op = "insert"
    /\ last.ip = ip
    /\ now <= last.now + ARPLIVE

\* whether t holds a valid record of ip that is older than ARPLIVE at now
HasStale(t, ip, now) ==
    \E i \in ValidSlots(t) : t[i].ip = ip /\ t[i].ctime + ARPLIVE < now

\* the slots of greatest age
Oldest(t) == {i \in Slots(t) : \A j \in Slots(t) : t[j].age <= t[i].age}

\* the slots insert takes its victim from when the scan s found nothing and
\* left no invalid slot: those of greatest age; no slot otherwise
Candidates(s) ==
    IF s.hit = 0 /\ ValidSlots(s.tbl) = Slots(s.tbl) THEN Oldest(s.tbl)
    ELSE {}

\* ARPRecTbl::insert(ip, mac); both clock reads of the call show the same
\* time here, FillInsert lets time pass between them.  For the properties,
\* last also records: seq, the inserts of ip that directly follow one another
\* within the liveness window (1 or 2); changed, whether the second of them
\* brought another mac than the first; grew, whether there are more valid
\* records than before; stale, whether the table held a valid record of ip
\* older than ARPLIVE; evict, the slots of greatest age when the call had
\* to evict.
CallInsert ==
    /\ AgeBounded
    /\ \E ip \in CacheIPs, mac \in CacheMacs :
        \E r \in {insert(tbl, ip, mac, clock, clock)} :
            /\ tbl' = r.tbl
            /\ clock' = clock
            /\ last' = [op |-> "insert", ip |-> ip, mac |-> mac,
                        now |-> clock, scan |-> clock,
                        hit |-> r.hit, slot |-> r.slot,
                        changed |-> RenewsLast(ip, clock) /\ last.mac # mac,
                        grew |-> Cardinality(ValidSlots(r.tbl))
                                    > Cardinality(ValidSlots(tbl)),
                        stale |-> HasStale(tbl, ip, clock),
                        evict |-> Candidates(
                                    get_mut_and_update(tbl, ip, clock)),
                        seq |-> IF RenewsLast(ip, clock) THEN 2 ELSE 1]
    /\ UNCHANGED pingvars

\* ARPRecTbl::get_mut_and_update(ip).  last.mac is the mac of the record
\* returned.  When the call directly follows an insert of ip within the
\* liveness window, seq and changed are those of that insert and expect is
\* its mac; else seq is 0.
CallGet ==
    /\ AgeBounded
    /\ \E ip \in CacheIPs :
        \E r \in {get_mut_and_update(tbl, ip, clock)} :
            /\ tbl' = r.tbl
            /\ clock' = clock
            /\ last' = [op |-> "get", ip |-> ip, scan |-> clock,
                        hit |-> r.hit,
                        mac |-> IF r.hit # 0 THEN r.tbl[r.hit].mac
                                ELSE MacDefault,
                        seq |-> IF RenewsLast(ip, clock) THEN last.seq ELSE 0,
                        changed |-> RenewsLast(ip, clock) /\ last.changed,
                        expect |-> IF RenewsLast(ip, clock) THEN last.mac
                                   ELSE MacDefault]
    /\ UNCHANGED pingvars

NextTbl == Tick \/ CallInsert \/ CallGet

Spec == InitTbl /\ [][NextTbl]_vars

----------------------------------------------------------------------------
(* Lookups in a cache whose records were scanned many times *)

\* ages of the records at the start: fresh ones, and ones that 65534 or more
\* scans have passed over
AgeValues == {0, 1, U16_MAX - 1, U16_MAX}

\* the records of the start: invalid ones as constructed, valid ones renewed
\* at time 0
AgedRecords ==
    {DefaultRecord}
        \cup [is_valid : {TRUE}, age : AgeValues, ip : CacheIPs,
              mac : {Mac(2, 1)}, ctime : {0}]

\* every valid age is within MaxAge of 0 or of u16::MAX
AgeNearBounds ==
    \A i \in ValidSlots(tbl) :
        tbl[i].age < MaxAge \/ tbl[i].age > U16_MAX - MaxAge

\* a table of such records, no two valid ones of the same address
InitAged ==
    /\ tbl \in [1..TblSz -> AgedRecords]
    /\ \A i, j \in ValidSlots(tbl) : tbl[i].ip = tbl[j].ip => i = j
    /\ clock = 0
    /\ last = NoCall
    /\ PingOff

\* ARPRecTbl::get_mut_and_update(ip)
AgedGet ==
    /\ AgeNearBounds
    /\ \E ip \in CacheIPs :
        \E r \in {get_mut_and_update(tbl, ip, clock)} :
            /\ tbl' = r.tbl
            /\ clock' = clock
            /\ last' = [op |-> "get", ip |-> ip, scan |-> clock,
                        hit |-> r.hit]
    /\ UNCHANGED pingvars

NextAged == Tick \/ AgedGet

SpecAged == InitAged /\ [][NextAged]_vars

----------------------------------------------------------------------------
(* Filling the table of ARP_TBL_SZ slots with distinct addresses *)

\* the n-th address inserted
FillIP(n) == Ipv4(10, 0, 1, n)

\* no valid record is older than ARPLIVE at now
NoneExpiredAt(now) ==
    \A i \in ValidSlots(tbl) : tbl[i].ctime + ARPLIVE >= now

InitFill ==
    /\ tbl = NewTbl(ARP_TBL_SZ)
    /\ clock = 0
    /\ last = [op |-> "none", n |-> 0]
    /\ PingOff

\* time passes, but no record expires
FillTick ==
    /\ clock + TimeStep <= MaxTime
    /\ NoneExpiredAt(clock + TimeStep)
    /\ clock' = clock + TimeStep
    /\ UNCHANGED <<tbl, last>>
    /\ UNCHANGED pingvars

\* the next insert of an address not inserted before; last.n counts them
FillInsert ==
    /\ last.n <= ARP_TBL_SZ
    /\ \E mac \in CacheMacs, now2 \in LaterReads :
        /\ NoneExpiredAt(now2)
        /\ \E r \in {insert(tbl, FillIP(last.n + 1), mac, clock, now2)} :
            /\ tbl' = r.tbl
            /\ clock' = now2
            /\ last' = [op |-> "insert", n |-> last.n + 1,
                        ip |-> FillIP(last.n + 1), mac |-> mac,
                        now |-> clock, scan |-> now2,
                        hit |-> r.hit, slot |-> r.slot]
    /\ UNCHANGED pingvars

NextFill == FillTick \/ FillInsert

SpecFill == InitFill /\ [][NextFill]_vars

----------------------------------------------------------------------------
(* Evictions from the table of ARP_TBL_SZ slots *)

\* lookups and renewing inserts of a run, besides the lookups of EvictGetBelow
MaxTouches == 1

\* inserts of addresses not inserted before in a run: two evict
MaxNew == ARP_TBL_SZ + 2

InitEvict ==
    /\ tbl = NewTbl(ARP_TBL_SZ)
    /\ clock = 0
    /\ last = [op |-> "none", n |-> 0, extra |-> 0, touched |-> 0,
               prev |-> 0, previp |-> Ipv4(0, 0, 0, 0),
               evicted |-> FALSE, tie |-> 0]
    /\ PingOff

\* the address of the record the latest call hit or wrote, as it was then
TouchedIP == IF last.touched = 0 THEN Ipv4(0, 0, 0, 0)
             ELSE tbl[last.touched].ip

\* ARPRecTbl::insert(ip, mac) moving last on: touched is the slot written (0
\* stands for no slot),
\* prev and previp the slot the call before touched and the address it held,
\* evicted whether a valid record was overwritten by a new address, tie the
\* number of records of greatest age then
EvictInsertOf(ip, n, extra) ==
    \E r \in {insert(tbl, ip, Mac(2, 1), clock, clock)} :
        \E c \in {Candidates(get_mut_and_update(tbl, ip, clock))} :
            /\ tbl' = r.tbl
            /\ clock' = clock
            /\ last' = [op |-> "insert", n |-> n, extra |-> extra,
                        touched |-> r.slot, prev |-> last.touched,
                        previp |-> TouchedIP, evicted |-> c # {},
                        tie |-> Cardinality(c)]

\* ARPRecTbl::get_mut_and_update(ip) moving last on: touched is the slot hit
EvictGetOf(ip, extra) ==
    \E r \in {get_mut_and_update(tbl, ip, clock)} :
        /\ tbl' = r.tbl
        /\ clock' = clock
        /\ last' = [op |-> "get", n |-> last.n, extra |-> extra,
                    touched |-> r.hit, prev |-> last.touched,
                    previp |-> TouchedIP, evicted |-> FALSE, tie |-> 0]

\* insert of an address not inserted before
EvictInsertNew ==
    /\ last.n < MaxNew
    /\ EvictInsertOf(FillIP(last.n + 1), last.n + 1, last.extra)
    /\ UNCHANGED pingvars

\* insert of an address inserted before
EvictRenew ==
    /\ last.extra < MaxTouches
    /\ \E k \in 1..last.n : EvictInsertOf(FillIP(k), last.n, last.extra + 1)
    /\ UNCHANGED pingvars

\* lookup of an address inserted before
EvictGet ==
    /\ last.extra < MaxTouches
    /\ \E k \in 1..last.n : EvictGetOf(FillIP(k), last.extra + 1)
    /\ UNCHANGED pingvars

\* in a full table, lookup of the address in the slot before the one the
\* latest call touched: from the last slot down, these lookups level the ages
EvictGetBelow ==
    /\ last.n >= ARP_TBL_SZ
    /\ last.touched > 1
    /\ EvictGetOf(tbl[last.touched - 1].ip, last.extra)
    /\ UNCHANGED pingvars

NextEvict == EvictInsertNew \/ EvictRenew \/ EvictGet \/ EvictGetBelow

SpecEvict == InitEvict /\ [][NextEvict]_vars

----------------------------------------------------------------------------
(* Header sizes, Ethernet constants *)

\* size_of::<Eth>()
ETH_HLEN == 14

\* size_of::<IPv4>()
IPV4_HLEN == 20

\* size_of::<ARP>()
ARP_HLEN == 28

\* Eth::ZLEN, the minimum frame length without the frame check sequence
ETH_ZLEN == 60

\* the largest value of the type field that is a length (IEEE 802.3)
ETH_DATA_LEN == 1500

\* EthTypeKind::IPv4
ETH_P_IP == 2048

\* EthTypeKind::ARP
ETH_P_ARP == 2054

\* EthTypeKind::IPv6, a recognized EtherType with no handler
ETH_P_IPV6 == 34525

\* a type field that is a legacy 802.3 length: the payload of a minimum frame
ProtoLen == ETH_ZLEN - ETH_HLEN

\* a type field above the lengths that is no EtherType
ProtoUndefined == ETH_DATA_LEN + 1

\* ARPOpKind::Request, ARPOpKind::Reply, another operation code
ARPOP_REQUEST == 1

ARPOP_REPLY == 2

ARPOP_RREQUEST == 3

\* HTypeKind::Ethernet10Mb
ARPHRD_ETHER == 1

MacZERO == Mac(0, 0)

MacBROADCAST == <<255, 255, 255, 255, 255, 255>>

\* EthProto::into_kind
into_kind(proto) ==
    IF proto <= ETH_DATA_LEN THEN "Len"
    ELSE IF proto \in {ETH_P_IP, ETH_P_ARP, ETH_P_IPV6} THEN "EthType"
    ELSE "Undefined"

----------------------------------------------------------------------------
(* RawBufRef: a view is an offset into the buffer and a remaining length *)

View(off, len) == [off |-> off, len |-> len]

rem_len(v) == v.len

\* consume::<T>(): the view advanced over a T of n bytes
consume(v, n) == View(v.off + n, v.len - n)

\* cur_slice(): the bytes of buffer data the view covers
cur_slice(data, v) == [data |-> data, off |-> v.off, len |-> v.len]

----------------------------------------------------------------------------
(* SkBuff: the cells data, th, nh and phy, each empty or holding one value *)

\* SkBuff::default(): every OnceCell empty
SkBuffDefault == [data |-> <<>>, th |-> <<>>, nh |-> <<>>, phy |-> <<>>]

\* a buffer under construction by one call: its cells; whether an unwrap
\* panicked; sets, the cells set in program order; acc, the headers read or
\* written through a view, with the bytes the view had left
NewSkBuff == [skb |-> SkBuffDefault, panic |-> FALSE, sets |-> <<>>,
              acc |-> <<>>]

\* a cell that takes a second value in place of the first
set_overwrites(b, fld, v) ==
    IF b.panic THEN b
    ELSE [b EXCEPT !.skb[fld] = <<v>>, !.sets = Append(@, fld)]

\* skb.fld.set(v).unwrap(): OnceCell::set fails on a full cell, the unwrap
\* then panics and the cell keeps its value
set(b, fld, v) ==
    IF b.panic THEN b
    ELSE IF b.skb[fld] # <<>>
        THEN [b EXCEPT !.panic = TRUE, !.sets = Append(@, fld)]
    ELSE [b EXCEPT !.skb[fld] = <<v>>, !.sets = Append(@, fld)]

\* consume::<T>() or cast::<T>() of a header of n bytes through view v
access(b, hdr, n, v) ==
    [b EXCEPT !.acc = Append(@, [hdr |-> hdr, size |-> n, rem |-> rem_len(v)])]

\* a buffer whose view covers none of its capacity
with_capacity_empty_view(capacity) ==
    set(set(NewSkBuff, "phy", View(0, 0)), "data", capacity)

\* SkBuff::with_capacity: phy is set to the view of the whole buffer, then
\* data to the buffer
with_capacity(capacity) ==
    set(set(NewSkBuff, "phy", View(0, capacity)), "data", capacity)

----------------------------------------------------------------------------
(* The device *)

\* NetDevice: ip, netmask, hwa
DevIP == Ipv4(10, 0, 0, 1)

DevNetmask == Ipv4(255, 255, 255, 0)

DevHwa == Mac(2, 9)

\* bitwise and of two octets
RECURSIVE OctetAnd(_, _)
OctetAnd(a, b) ==
    IF a = 0 \/ b = 0 THEN 0
    ELSE 2 * OctetAnd(a \div 2, b \div 2) + (IF a % 2 = 1 /\ b % 2 = 1 THEN 1 ELSE 0)

\* Ipv4Addr & Ipv4Addr
IpAnd(a, b) == [k \in 1..4 |-> OctetAnd(a[k], b[k])]

\* sendto returned Ok(n) with n the length of the slice, Ok(n) with n
\* smaller, or Err
SendOutcomes == {"full", "short", "err"}

\* linkoutput from segment i of the chain on: one sendto a segment, of the
\* slice of its phy view; an Err ends the call.  oc[i] is what the i-th
\* sendto returns, tx the calls of sendto made so far.
RECURSIVE SendFrom(_, _, _, _)
SendFrom(chain, i, oc, tx) ==
    LET sent == Append(tx, [slice |-> cur_slice(chain[i].data, chain[i].phy),
                            res |-> oc[i]])
    IN  IF oc[i] = "err" THEN [ret |-> "err_socket", tx |-> sent]
        ELSE IF i < Len(chain) THEN SendFrom(chain, i + 1, oc, sent)
        ELSE [ret |-> "ok", tx |-> sent]

\* the loop of linkoutput with the result of sendto dropped in the place of
\* `?`: the segments behind a failed one are sent as well
RECURSIVE SendPastErrors(_, _, _, _)
SendPastErrors(chain, i, oc, tx) ==
    LET sent == Append(tx, [slice |-> cur_slice(chain[i].data, chain[i].phy),
                            res |-> oc[i]])
    IN  IF i < Len(chain) THEN SendPastErrors(chain, i + 1, oc, sent)
        ELSE [ret |-> IF \E k \in 1..Len(sent) : sent[k].res = "err"
                      THEN "err_socket" ELSE "ok",
              tx |-> sent]

\* linkoutput going on to the next segment after a failed sendto
linkoutput_past_errors(chain, oc) == SendPastErrors(chain, 1, oc, <<>>)

\* linkoutput with the loop left after the first segment
linkoutput_head_only(chain, oc) == SendFrom(SubSeq(chain, 1, 1), 1, oc, <<>>)

linkoutput(chain, oc) == SendFrom(chain, 1, oc, <<>>)

\* the segment handed to linkoutput with the cursor behind the headers written
\* in the place of the phy view of the buffer
segment_behind_headers(b, data) ==
    [data |-> data, phy |-> consume(b.skb.nh[1], ARP_HLEN)]

\* the segment arp_output hands to linkoutput: the buffer behind the
\* OwnedPtr, of which linkoutput sends the slice of the phy view
segment(b, data) == [data |-> data, phy |-> b.skb.phy[1]]

\* arp_output: a buffer of Eth::ZLEN bytes, the Ethernet header written at
\* the phy view, nh set behind it, the ARP header written there; the phy
\* view itself is not advanced (the writes go through a copy of it).  b is
\* the buffer as the call leaves it.
arp_output(op, src_ip, dst_ip, src_mac, dst_mac, target_mac, oc) ==
    LET b0 == with_capacity(ETH_ZLEN) IN
    IF b0.panic \/ b0.skb.phy = <<>>
        THEN [ret |-> "panic", tx |-> <<>>, b |-> [b0 EXCEPT !.panic = TRUE]]
    ELSE LET rawbuf == b0.skb.phy[1]
             b1 == access(b0, "Eth", ETH_HLEN, rawbuf)
             nh == consume(rawbuf, ETH_HLEN)
             b2 == set(b1, "nh", nh)
             b3 == access(b2, "ARP", ARP_HLEN, nh)
             data == [eth |-> [dst |-> dst_mac, src |-> src_mac,
                               proto |-> ETH_P_ARP],
                      body |-> [kind |-> "arp", htype |-> ARPHRD_ETHER,
                                ptype |-> ETH_P_IP, hlen |-> 6, plen |-> 4,
                                op |-> op, sha |-> src_mac, spa |-> src_ip,
                                tha |-> target_mac, tpa |-> dst_ip]]
         IN  IF b2.panic THEN [ret |-> "panic", tx |-> <<>>, b |-> b2]
             ELSE LET r == linkoutput(<<segment(b3, data)>>, <<oc>>)
                  IN  [ret |-> r.ret, tx |-> r.tx, b |-> b3]

\* arp_request querying the network address of an address outside the subnet
arp_request_network_address(tip, oc) ==
    LET target == IF IpAnd(tip, DevNetmask) # IpAnd(DevIP, DevNetmask)
                  THEN IpAnd(tip, DevNetmask) ELSE tip
    IN  arp_output(ARPOP_REQUEST, DevIP, target, DevHwa, MacZERO, MacZERO, oc)

\* arp_request: an address outside the subnet is replaced by the netmask
arp_request(tip, oc) ==
    LET target == IF IpAnd(tip, DevNetmask) # IpAnd(DevIP, DevNetmask)
                  THEN DevNetmask ELSE tip
    IN  arp_output(ARPOP_REQUEST, DevIP, target, DevHwa, MacZERO, MacZERO, oc)

\* the operation codes of Request and Reply taken for one another
to_kind_swapped(op) ==
    CASE op = ARPOP_REPLY -> "Request"
      [] op = ARPOP_REQUEST -> "Reply"
      [] OTHER -> "Other"

\* ARPOp::to_kind
to_kind(op) ==
    CASE op = ARPOP_REQUEST -> "Request"
      [] op = ARPOP_REPLY -> "Reply"
      [] OTHER -> "Other"

\* arp_input on the buffer b of the received frame f; learn holds the pair
\* the call has ARP_TBL insert, out the buffers allocated for output
arp_input(f, b, oc) ==
    IF b.skb.nh = <<>>
        THEN [ret |-> "panic", learn |-> <<>>, tx |-> <<>>,
              b |-> [b EXCEPT !.panic = TRUE], out |-> <<>>]
    ELSE LET arpbuf == b.skb.nh[1] IN
         IF rem_len(arpbuf) < ARP_HLEN
             THEN [ret |-> "err_arp", learn |-> <<>>, tx |-> <<>>, b |-> b,
                   out |-> <<>>]
         ELSE LET b1 == access(b, "ARP", ARP_HLEN, arpbuf)
                  arph == f.body
                  asked == to_kind(arph.op) = "Request"
                  req == IF asked THEN arp_request(arph.tpa, oc)
                         ELSE [ret |-> "ok", tx |-> <<>>]
                  out == IF asked THEN <<req.b>> ELSE <<>>
              IN  IF req.ret # "ok"
                      THEN [ret |-> req.ret, learn |-> <<>>, tx |-> req.tx,
                            b |-> b1, out |-> out]
                  ELSE [ret |-> "ok",
                        learn |-> <<[ip |-> arph.spa, mac |-> arph.sha]>>,
                        tx |-> req.tx, b |-> b1, out |-> out]

\* the destination filter of input: whether the frame is dropped
\* with the second comparison inverted
dst_filtered_inverted(ethh) == ethh.dst # MacBROADCAST /\ ethh.dst = DevHwa

dst_filtered(ethh) == ethh.dst # MacBROADCAST /\ ethh.dst # DevHwa

\* the length check of input one byte short
eth_truncated_off_by_one(phy) == rem_len(phy) < ETH_HLEN - 1

\* whether input takes the frame for shorter than an Ethernet header
eth_truncated(phy) == rem_len(phy) < ETH_HLEN

\* the destination of an IPv4 packet in the place of its sender
learn_ipv4_destination(iph, ethh) == [ip |-> iph.dst, mac |-> ethh.dst]

\* ARP_TBL.insert(iph.src, ethh.src): the pair learned from an IPv4 packet
learn_ipv4(iph, ethh) == [ip |-> iph.src, mac |-> ethh.src]

\* a frame of a type input does not handle taken for an error
skip_is_error(b) ==
    [ret |-> "err_eth", learn |-> <<>>, tx |-> <<>>, b |-> b, out |-> <<>>]

\* input on a frame whose type field is no EtherType (`return Ok(())`) or an
\* EtherType other than IPv4 and ARP (the `_` arm): nothing but a trace line
skip(b) == [ret |-> "ok", learn |-> <<>>, tx |-> <<>>, b |-> b, out |-> <<>>]

\* input on the frame f that read returned, of f.len bytes, with oc what
\* sendto returns; learn holds the pair the call has ARP_TBL insert
input(f, oc) ==
    LET dataref == View(0, f.len)
        b2 == set(set(NewSkBuff, "data", f.len), "phy", dataref)
        end(ret, b) == [ret |-> ret, learn |-> <<>>, tx |-> <<>>, b |-> b,
                        out |-> <<>>]
    IN
    IF b2.panic THEN end("panic", b2)
    ELSE IF eth_truncated(dataref) THEN end("err_eth", b2)
    ELSE LET ethh == f.eth
             nh == consume(dataref, ETH_HLEN)
             b4 == set(access(b2, "Eth", ETH_HLEN, dataref), "nh", nh)
         IN  IF b4.panic THEN end("panic", b4)
             ELSE IF dst_filtered(ethh) THEN end("ok", b4)
             ELSE IF into_kind(ethh.proto) # "EthType" THEN skip(b4)
             ELSE IF ethh.proto = ETH_P_IP
                 THEN IF rem_len(nh) < IPV4_HLEN THEN end("err_ipv4", b4)
                      ELSE [ret |-> "ok",
                            learn |-> <<learn_ipv4(f.body, ethh)>>,
                            tx |-> <<>>,
                            b |-> access(b4, "IPv4", IPV4_HLEN, nh),
                            out |-> <<>>]
             ELSE IF ethh.proto = ETH_P_ARP THEN arp_input(f, b4, oc)
             ELSE skip(b4)

\* ARP_TBL after the inserts of a call, made at time now
learned(t, learn, now) ==
    IF learn = <<>> THEN t
    ELSE insert(t, learn[1].ip, learn[1].mac, now, now).tbl

----------------------------------------------------------------------------
(* The frames read from the socket *)

\* a neighbour in the subnet of the device, a host outside it
PeerIP == Ipv4(10, 0, 0, 2)

ForeignIP == Ipv4(10, 0, 1, 7)

PeerMac == Mac(2, 1)

OtherMac == Mac(2, 2)

\* a frame too short for a header holds none: the bytes behind it are zero
ZeroEth == [dst |-> MacZERO, src |-> MacZERO, proto |-> 0]

NoBody == [kind |-> "none"]

\* the values of the type field: IPv4, ARP, a recognized EtherType with no
\* handler, a legacy length, an undefined value
Protos == {ETH_P_IP, ETH_P_ARP, ETH_P_IPV6, ProtoLen, ProtoUndefined}

\* the destinations that pass the filter of input
OwnDsts == {DevHwa, MacBROADCAST}

ArpBodies ==
    [kind : {"arp"},
     op : {ARPOP_REQUEST, ARPOP_REPLY, ARPOP_RREQUEST},
     sha : {PeerMac, OtherMac},
     spa : {PeerIP},
     tha : {MacZERO},
     tpa : {DevIP, PeerIP, ForeignIP}]

Ipv4Bodies ==
    [kind : {"ipv4"}, src : {PeerIP, ForeignIP}, dst : {DevIP, ForeignIP}]

Frame(len, dst, src, proto, body) ==
    [len |-> len, eth |-> [dst |-> dst, src |-> src, proto |-> proto],
     body |-> body]

\* frames shorter than an Ethernet header
ShortFrames ==
    {[len |-> n, eth |-> ZeroEth, body |-> NoBody] : n \in {0, ETH_HLEN - 1}}

\* frames whose payload is one byte short of the header the type announces
TruncatedFrames ==
    {Frame(ETH_HLEN + IPV4_HLEN - 1, d, PeerMac, ETH_P_IP, NoBody) :
        d \in OwnDsts \cup {PeerMac}}
    \cup {Frame(ETH_HLEN + ARP_HLEN - 1, d, PeerMac, ETH_P_ARP, NoBody) :
        d \in OwnDsts \cup {PeerMac}}

\* frames of a type input has no handler for
UnhandledFrames ==
    {Frame(ETH_ZLEN, d, PeerMac, p, NoBody) :
        d \in OwnDsts \cup {PeerMac}, p \in Protos \ {ETH_P_IP, ETH_P_ARP}}

\* complete IPv4 and ARP frames addressed to another station
ForeignDstFrames ==
    {Frame(ETH_HLEN + IPV4_HLEN, PeerMac, OtherMac, ETH_P_IP,
           [kind |-> "ipv4", src |-> ForeignIP, dst |-> PeerIP]),
     Frame(ETH_HLEN + ARP_HLEN, PeerMac, OtherMac, ETH_P_ARP,
           [kind |-> "arp", op |-> ARPOP_REQUEST, sha |-> OtherMac,
            spa |-> ForeignIP, tha |-> MacZERO, tpa |-> PeerIP])}

\* complete IPv4 frames that pass the filter
Ipv4Frames ==
    {Frame(ETH_HLEN + IPV4_HLEN, DevHwa, m, ETH_P_IP, b) :
        m \in {PeerMac, OtherMac}, b \in Ipv4Bodies}

\* complete ARP frames that pass the filter, of 42 bytes
ArpFrames ==
    {Frame(ETH_HLEN + ARP_HLEN, d, PeerMac, ETH_P_ARP, b) :
        d \in OwnDsts, b \in ArpBodies}

Frames ==
    ShortFrames \cup TruncatedFrames \cup UnhandledFrames
        \cup ForeignDstFrames \cup Ipv4Frames \cup ArpFrames

----------------------------------------------------------------------------
(* The device receiving frames *)

InitDev ==
    /\ tbl = NewTbl(ARP_TBL_SZ)
    /\ clock = 0
    /\ last = NoCall
    /\ PingOff

\* what input may do on frame f: what sendto returns matters only if
\* input calls it
InputResults(f) ==
    LET r0 == input(f, "full") IN
    IF r0.tx = <<>> THEN {r0}
    ELSE {input(f, oc) : oc \in SendOutcomes}

\* what input may do on each of the frames
Received == [f \in Frames |-> InputResults(f)]

\* NetDevice::input() on a frame read from the socket; last keeps the frame,
\* what the call returned and sent, its buffers, and whether it left the
\* cache the same
InputOf(frames) ==
    /\ AgeBounded
    /\ \E f \in frames :
        \E r \in Received[f] :
            /\ tbl' = learned(tbl, r.learn, clock)
            /\ clock' = clock
            /\ last' = [op |-> "input", frame |-> f, ret |-> r.ret,
                        tx |-> r.tx, b |-> r.b, out |-> r.out,
                        same |-> tbl' = tbl]
    /\ UNCHANGED pingvars

Input == InputOf(Frames)

\* NetDevice::input() when read fails
InputReadFails ==
    /\ tbl' = tbl
    /\ clock' = clock
    /\ last' = [op |-> "input_read", ret |-> "err_read", tx |-> <<>>]
    /\ UNCHANGED pingvars

NextDev == Tick \/ Input \/ InputReadFails

SpecDev == InitDev /\ [][NextDev]_vars

----------------------------------------------------------------------------
(* Packet buffers set by their users, next to the frames received *)

\* the cells of SkBuff
SkbFields == {"data", "th", "nh", "phy"}

\* capacities of the buffers allocated
SkbCapacities == {ETH_ZLEN, ETH_DATA_LEN}

\* the values a cell is set to: a buffer for data, a view for the others
SkbValues(fld) ==
    IF fld = "data" THEN SkbCapacities
    ELSE {View(0, ETH_ZLEN), View(ETH_HLEN, ETH_ZLEN - ETH_HLEN)}

\* SkBuff::default() or SkBuff::with_capacity(capacity)
SkbAlloc ==
    /\ \E b \in {NewSkBuff} \cup {with_capacity(c) : c \in SkbCapacities} :
        last' = [op |-> "skb", call |-> "new", b |-> b]
    /\ UNCHANGED <<tbl, clock>>
    /\ UNCHANGED pingvars

\* skb.fld.set(v).unwrap() on the latest buffer; was is the cell before
SkbSet ==
    /\ last.op = "skb"
    /\ ~last.b.panic
    /\ \E fld \in SkbFields :
        \E v \in SkbValues(fld) :
            last' = [op |-> "skb", call |-> "set", fld |-> fld, v |-> v,
                     was |-> last.b.skb[fld], b |-> set(last.b, fld, v)]
    /\ UNCHANGED <<tbl, clock>>
    /\ UNCHANGED pingvars

\* frames that take input down each of its paths, from one neighbour
PathFrames ==
    ShortFrames \cup ForeignDstFrames
        \cup {f \in TruncatedFrames \cup UnhandledFrames : f.eth.dst = DevHwa}
        \cup {f \in Ipv4Frames :
                /\ f.eth.src = PeerMac
                /\ f.body.src = PeerIP
                /\ f.body.dst = DevIP}
        \cup {f \in ArpFrames :
                /\ f.eth.dst = DevHwa
                /\ f.body.sha = PeerMac
                /\ f.body.tpa = DevIP}

\* NetDevice::input() on one of these frames
SkbInput == InputOf(PathFrames)

NextSkb == SkbAlloc \/ SkbSet \/ SkbInput

SpecSkb == InitDev /\ [][NextSkb]_vars

----------------------------------------------------------------------------
(* Link output on chains of buffers *)

\* the segments of a chain are at most this many
MaxChain == 3

\* SkBuff: the buffer it owns and its phy view, which covers the buffer
Segments ==
    {[data |-> "hdr", phy |-> View(0, ETH_ZLEN)],
     [data |-> "payload", phy |-> View(0, ETH_DATA_LEN)],
     [data |-> "trailer", phy |-> View(0, 1)]}

\* chains through SkBuff::next, the head first
Chains == UNION {[1..k -> Segments] : k \in 1..MaxChain}

InitLink ==
    /\ tbl = NewTbl(ARP_TBL_SZ)
    /\ clock = 0
    /\ last \in {[op |-> "chain", chain |-> c] : c \in Chains}
    /\ PingOff

\* NetDevice::linkoutput on the chain, with whatever sendto returns
CallLinkOutput ==
    /\ \E oc \in [1..Len(last.chain) -> SendOutcomes] :
        \E r \in {linkoutput(last.chain, oc)} :
            last' = [op |-> "linkoutput", chain |-> last.chain,
                     ret |-> r.ret, tx |-> r.tx]
    /\ UNCHANGED <<tbl, clock>>
    /\ UNCHANGED pingvars

NextLink == CallLinkOutput

SpecLink == InitLink /\ [][NextLink]_vars

----------------------------------------------------------------------------
(* The ping tool: statistics shared by the send and the receive thread *)

\* requests the send loop starts while no signal is recorded
MaxSeq == 2

\* the receive loop starts no further round once the clock shows this, while
\* no signal is recorded
MaxPingClock == 5

\* values of the window option (Cli::window)
Windows == {1, 2}

\* values of the timeout option (Cli::timeout), in steps of the clock
Timeouts == {3}

\* the signals main blocks and thread_ctl waits for
Signals == {"SIGINT", "SIGTERM"}

\* the sequence numbers replies carry: those of requests, and one never sent
ReplySeqs == {1, 2, U16_MAX}

\* timestamp_now(): every reading is later than the one before
timestamp_now == clock + 1

\* StatsGroup::new, and the mutex around it not poisoned
NewStats ==
    [sent_cnt |-> 0, recv_cnt |-> 0, lost_cnt |-> 0, tbl |-> <<>>,
     poisoned |-> FALSE]

\* StatsGroupRef::push
push(t, rec) == [t EXCEPT !.tbl = Append(@, rec), !.sent_cnt = @ + 1]

\* StatsGroupRef::cwnd: the difference of the u64 counters, cast to u16
cwnd(t) == (t.sent_cnt - (t.recv_cnt + t.lost_cnt)) % (U16_MAX + 1)

\* the assertion of RequestRecord::is_expired
asserted(rec, now) == now > rec.sent

\* RequestRecord::is_expired behind its assertion
is_expired(rec, now, timeout) == now - rec.sent >= timeout

\* where the search for the first record not expired ends: at that record,
\* or at a record that fails the assertion
Stops(rec, now, timeout) ==
    ~asserted(rec, now) \/ ~is_expired(rec, now, timeout)

\* the first position of the queue q at which the search ends
position(q, now, timeout) ==
    CHOOSE i \in 1..Len(q) :
        /\ Stops(q[i], now, timeout)
        /\ \A j \in 1..(i - 1) : ~Stops(q[j], now, timeout)

\* StatsGroupRef::remove_expired with the mutex held, now read before: the
\* statistics after the call, the records drained, the records is_expired
\* was called on, and whether an assertion failed
remove_expired(t, now, timeout) ==
    LET q == t.tbl
        back == q[Len(q)]
        kept == [stats |-> t, out |-> <<>>, seen |-> {}, panic |-> FALSE]
    IN  IF q = <<>> THEN kept
        ELSE IF ~asserted(back, now)
            THEN [kept EXCEPT !.seen = {back}, !.panic = TRUE]
        ELSE IF is_expired(back, now, timeout)
            THEN [stats |-> [t EXCEPT !.lost_cnt = @ + Len(q), !.tbl = <<>>],
                  out |-> q, seen |-> {back}, panic |-> FALSE]
        ELSE LET pos == position(q, now, timeout)
                 seen == {back} \cup {q[i] : i \in 1..pos}
             IN  IF ~asserted(q[pos], now)
                     THEN [kept EXCEPT !.seen = seen, !.panic = TRUE]
                 ELSE [stats |-> [t EXCEPT !.lost_cnt = @ + (pos - 1),
                                           !.tbl = SubSeq(q, pos, Len(q))],
                       out |-> SubSeq(q, 1, pos - 1), seen |-> seen,
                       panic |-> FALSE]

\* the positions of the records with sequence number seq
Matches(q, seq) == {i \in 1..Len(q) : q[i].seq = seq}

\* the queue without its i-th record
Without(q, i) == SubSeq(q, 1, i - 1) \o SubSeq(q, i + 1, Len(q))

\* remove counting a reply whether or not a request is waiting for it
remove_counts_every_reply(t, seq) ==
    LET m == Matches(t.tbl, seq) IN
    IF m = {} THEN [stats |-> [t EXCEPT !.recv_cnt = @ + 1], out |-> <<>>]
    ELSE LET pos == CHOOSE i \in m : \A j \in m : i <= j
         IN  [stats |-> [t EXCEPT !.recv_cnt = @ + 1,
                                  !.tbl = Without(@, pos)],
              out |-> <<t.tbl[pos]>>]

\* StatsGroupRef::remove(seq): the first record with that sequence number
remove(t, seq) ==
    LET m == Matches(t.tbl, seq) IN
    IF m = {} THEN [stats |-> t, out |-> <<>>]
    ELSE LET pos == CHOOSE i \in m : \A j \in m : i <= j
         IN  [stats |-> [t EXCEPT !.recv_cnt = @ + 1,
                                  !.tbl = Without(@, pos)],
              out |-> <<t.tbl[pos]>>]

\* the elements of a sequence
Range(q) == {q[i] : i \in 1..Len(q)}

----------------------------------------------------------------------------
(* The ping tool: the threads *)

\* what ping_recv finds: a packet it filters out, a failed recv_all, or an
\* echo reply with a sequence number and an echoed timestamp that is or is
\* not later than the time of its arrival
Replies ==
    {[kind |-> "filtered"], [kind |-> "err"]}
        \cup [kind : {"reply"}, seq : ReplySeqs, late : BOOLEAN]

\* a thread has returned or panicked
Stopped(pc) == pc \in {"done", "panicked"}

\* SIGINT or SIGTERM is in the set
Signalled == ctlsigs \cap Signals # {}

\* main up to thread::scope: the options parsed, StatsGroup::new,
\* ControlSignals::new, the three threads spawned
InitPing ==
    /\ cli \in [window : Windows, timeout : Timeouts]
    /\ stats = NewStats
    /\ ctlsigs = {}
    /\ thr = [send |-> [pc |-> "send", seq |-> 0, sent |-> 0, n |-> 0],
              recv |-> [pc |-> "wait", now |-> 0, recvd |-> FALSE],
              ctl |-> "wait", main |-> "scope"]
    /\ hist = [received |-> {}, lost |-> {}, stray |-> FALSE, seen |-> {},
               now |-> 0, cwnd |-> 0]
    /\ clock = 0
    /\ tbl = <<>>
    /\ last = NoCall

\* ping_send_loop, top of the outer loop, and ping_once: the sequence number
\* is advanced, the timestamp taken, the request sent; a failed sendto_all
\* ends the loop.  n counts the requests started since the initial state.
SendOnce ==
    /\ thr.send.pc = "send"
    /\ thr.send.n < MaxSeq \/ ctlsigs # {}
    /\ \E oc \in {"ok", "err"} :
        thr' = [thr EXCEPT !.send =
                   [pc |-> IF oc = "ok" THEN "push" ELSE "done",
                    seq |-> (thr.send.seq + 1) % (U16_MAX + 1),
                    sent |-> timestamp_now,
                    n |-> thr.send.n + 1]]
    /\ clock' = timestamp_now
    /\ UNCHANGED <<tbl, last, cli, stats, ctlsigs, hist>>

\* stats.push(rec); lock().unwrap() panics on a poisoned mutex
SendPush ==
    /\ thr.send.pc = "push"
    /\ IF stats.poisoned
           THEN /\ thr' = [thr EXCEPT !.send.pc = "panicked"]
                /\ stats' = stats
           ELSE /\ thr' = [thr EXCEPT !.send.pc = "check"]
                /\ stats' = push(stats, [seq |-> thr.send.seq,
                                         sent |-> thr.send.sent])
    /\ UNCHANGED <<tbl, clock, last, cli, ctlsigs, hist>>

\* the inner loop of ping_send_loop: the signals are looked at
SendCheck ==
    /\ thr.send.pc = "check"
    /\ thr' = [thr EXCEPT !.send.pc = IF Signalled THEN "done" ELSE "sleep"]
    /\ UNCHANGED <<tbl, clock, last, cli, stats, ctlsigs, hist>>

\* the inner loop after the sleep: stats.cwnd() <= *WND
SendCwnd ==
    /\ thr.send.pc = "sleep"
    /\ IF stats.poisoned
           THEN /\ thr' = [thr EXCEPT !.send.pc = "panicked"]
                /\ hist' = hist
           ELSE /\ thr' = [thr EXCEPT !.send.pc =
                              IF cwnd(stats) <= cli.window THEN "send"
                              ELSE "check"]
                /\ hist' = [hist EXCEPT !.cwnd = cwnd(stats)]
    /\ UNCHANGED <<tbl, clock, last, cli, stats, ctlsigs>>

\* ping_recv_loop: epoll.pwait returns, with or without an event, and the
\* signals are looked at
RecvWait ==
    /\ thr.recv.pc = "wait"
    /\ clock < MaxPingClock \/ ctlsigs # {}
    /\ \E recvd \in BOOLEAN :
        thr' = [thr EXCEPT !.recv.pc = IF Signalled THEN "done" ELSE "now1",
                           !.recv.recvd = recvd]
    /\ UNCHANGED <<tbl, clock, last, cli, stats, ctlsigs, hist>>

\* remove_expired, first statement: now is read, the mutex not yet taken
RecvNow ==
    /\ thr.recv.pc \in {"now1", "now2"}
    /\ thr' = [thr EXCEPT !.recv.now = timestamp_now,
                          !.recv.pc = IF @ = "now1" THEN "lock1" ELSE "lock2"]
    /\ clock' = timestamp_now
    /\ UNCHANGED <<tbl, last, cli, stats, ctlsigs, hist>>

\* where the receive loop goes on after a remove_expired
AfterExpire ==
    IF thr.recv.pc = "lock2" THEN "wait"
    ELSE IF thr.recv.recvd THEN "recv"
    ELSE "now2"

\* remove_expired with the mutex held; a failed assertion poisons the mutex
\* and ends the thread
RecvExpire ==
    /\ thr.recv.pc \in {"lock1", "lock2"}
    /\ \E r \in {remove_expired(stats, thr.recv.now, cli.timeout)} :
        /\ stats' = [r.stats EXCEPT !.poisoned = r.panic]
        /\ thr' = [thr EXCEPT !.recv.pc = IF r.panic THEN "panicked"
                                          ELSE AfterExpire]
        /\ hist' = [hist EXCEPT !.lost = @ \cup Range(r.out),
                                !.seen = r.seen, !.now = thr.recv.now]
    /\ UNCHANGED <<tbl, clock, last, cli, ctlsigs>>

\* ping_recv: a packet filtered out; recv_all failing, which ends the loop;
\* an echo reply, whose delay is now minus the echoed timestamp (an echoed
\* timestamp later than now panics where overflow is checked and wraps
\* where it is not), then stats.remove(seq)
RecvReply ==
    /\ thr.recv.pc = "recv"
    /\ \E m \in Replies :
        \/ /\ m.kind = "filtered"
           /\ thr' = [thr EXCEPT !.recv.pc = "wait"]
           /\ UNCHANGED <<clock, stats, hist>>
        \/ /\ m.kind = "err"
           /\ thr' = [thr EXCEPT !.recv.pc = "done"]
           /\ UNCHANGED <<clock, stats, hist>>
        \/ /\ m.kind = "reply"
           /\ m.late
           /\ thr' = [thr EXCEPT !.recv.pc = "panicked"]
           /\ clock' = timestamp_now
           /\ UNCHANGED <<stats, hist>>
        \/ /\ m.kind = "reply"
           /\ \E r \in {remove(stats, m.seq)} :
               /\ stats' = r.stats
               /\ hist' = [hist EXCEPT !.received = @ \cup Range(r.out),
                                       !.stray = @ \/ r.out = <<>>]
           /\ thr' = [thr EXCEPT !.recv.pc = "wait"]
           /\ clock' = timestamp_now
    /\ UNCHANGED <<tbl, last, cli, ctlsigs>>

\* thread_ctl: sigset.wait() returns a signal, which is recorded
CtlSignal ==
    /\ thr.ctl = "wait"
    /\ \E sig \in Signals : ctlsigs' = ctlsigs \cup {sig}
    /\ thr' = [thr EXCEPT !.ctl = "done"]
    /\ UNCHANGED <<tbl, clock, last, cli, stats, hist>>

\* thread::scope returns when the three threads have ended, and panics when
\* one of them panicked
MainJoin ==
    /\ thr.main = "scope"
    /\ Stopped(thr.send.pc) /\ Stopped(thr.recv.pc) /\ thr.ctl = "done"
    /\ thr' = [thr EXCEPT !.main =
                  IF "panicked" \in {thr.send.pc, thr.recv.pc}
                  THEN "panicked" ELSE "expire"]
    /\ UNCHANGED <<tbl, clock, last, cli, stats, ctlsigs, hist>>

\* main: the last remove_expired
MainExpire ==
    /\ thr.main = "expire"
    /\ \E r \in {remove_expired(stats, timestamp_now, cli.timeout)} :
        /\ stats' = [r.stats EXCEPT !.poisoned = r.panic]
        /\ thr' = [thr EXCEPT !.main = IF stats.poisoned \/ r.panic
                                       THEN "panicked" ELSE "print"]
        /\ hist' = [hist EXCEPT !.lost = @ \cup Range(r.out),
                                !.seen = r.seen, !.now = timestamp_now]
    /\ clock' = timestamp_now
    /\ UNCHANGED <<tbl, last, cli, ctlsigs>>

\* main: stats_ref.elapsed()?.do_print()
MainPrint ==
    /\ thr.main = "print"
    /\ thr' = [thr EXCEPT !.main = "printed"]
    /\ UNCHANGED <<tbl, clock, last, cli, stats, ctlsigs, hist>>

SendStep == SendOnce \/ SendPush \/ SendCheck \/ SendCwnd

RecvStep == RecvWait \/ RecvNow \/ RecvExpire \/ RecvReply

MainStep == MainJoin \/ MainExpire \/ MainPrint

NextPing ==
    \/ SendOnce \/ SendPush \/ SendCheck \/ SendCwnd
    \/ RecvWait \/ RecvNow \/ RecvExpire \/ RecvReply
    \/ CtlSignal
    \/ MainJoin \/ MainExpire \/ MainPrint

SpecPing == InitPing /\ [][NextPing]_vars

\* every thread that can take a step does so in the end; no signal need ever
\* arrive
SpecPingFair ==
    /\ SpecPing
    /\ WF_vars(SendStep)
    /\ WF_vars(RecvStep)
    /\ WF_vars(MainStep)

----------------------------------------------------------------------------
(* The ping tool with the widest window, no request answered or expired *)

\* a timeout that none of the requests reaches
WideTimeout == 16 * (U16_MAX + 1)

\* the requests outstanding at the start
WideSent == {U16_MAX - 1, U16_MAX}

\* ping -w 65535 of a host that does not answer, after n requests: every
\* look at cwnd() showed at most 65535, so the send loop went on; request i
\* was stamped at time i; the sender has pushed the n-th, the receiver waits
\* in epoll.pwait
InitWide ==
    /\ cli = [window |-> U16_MAX, timeout |-> WideTimeout]
    /\ \E n \in WideSent :
        /\ stats = [sent_cnt |-> n, recv_cnt |-> 0, lost_cnt |-> 0,
                    tbl |-> [i \in 1..n |-> [seq |-> i, sent |-> i]],
                    poisoned |-> FALSE]
        /\ thr = [send |-> [pc |-> "check", seq |-> n, sent |-> n, n |-> 0],
                  recv |-> [pc |-> "wait", now |-> 0, recvd |-> FALSE],
                  ctl |-> "wait", main |-> "scope"]
        /\ hist = [received |-> {}, lost |-> {}, stray |-> FALSE,
                   seen |-> {}, now |-> 0, cwnd |-> n - 1]
        /\ clock = n
    /\ ctlsigs = {}
    /\ tbl = <<>>
    /\ last = NoCall

\* the receive loop leaves epoll.pwait only to end
NextWide ==
    \/ SendOnce \/ SendPush \/ SendCheck \/ SendCwnd
    \/ RecvWait
    \/ CtlSignal
    \/ MainJoin \/ MainExpire \/ MainPrint

SpecWide == InitWide /\ [][NextWide]_vars

----------------------------------------------------------------------------
(* Properties of the cache *)

\* C1: after any sequence of insert and get_mut_and_update calls, with time
\* passing between them, no two valid records hold the same IP address.
C1_OneValidRecordPerIp ==
    \A i, j \in ValidSlots(tbl) : tbl[i].ip = tbl[j].ip => i = j

\* an insert found nothing, evicted, and left a full table after time passed
C1_Witness ==
    /\ last.op = "insert"
    /\ last.hit = 0
    /\ ~last.grew
    /\ ValidSlots(tbl) = Slots(tbl)
    /\ clock > 0

\* C2: from the empty table of ARP_TBL_SZ slots, while fewer addresses than
\* slots were inserted each has its valid record; the insert of distinct
\* address number ARP_TBL_SZ + 1 leaves exactly ARP_TBL_SZ valid records and
\* overwrites a valid record than which none is older in age.
C2_EleventhInsertEvictsOldest ==
    [][ /\ (last'.op = "insert" /\ last'.n <= ARP_TBL_SZ)
            => Cardinality(ValidSlots(tbl')) = last'.n
        /\ (last'.op = "insert" /\ last.n = ARP_TBL_SZ
                /\ last'.n = ARP_TBL_SZ + 1)
            => /\ Cardinality(ValidSlots(tbl')) = ARP_TBL_SZ
               /\ last'.hit = 0
               /\ tbl[last'.slot].is_valid
               /\ tbl'[last'.slot].ip = last'.ip
               /\ \A j \in Slots(tbl) : tbl[j].age <= tbl[last'.slot].age
      ]_vars

\* the insert of address number ARP_TBL_SZ + 1 was made, after time passed
C2_Witness ==
    /\ last.op = "insert"
    /\ last.n = ARP_TBL_SZ + 1
    /\ clock > 0

\* C3: an insert of ip directly following an insert of ip within the liveness
\* window finds the record and does not add a valid record; a
\* get_mut_and_update of ip directly following it within the liveness window
\* returns the record, holding the mac of the second insert.
C3_RenewOverwrites ==
    /\ (last.op = "insert" /\ last.seq = 2)
        => /\ last.hit # 0
           /\ ~last.grew
           /\ Cardinality({i \in ValidSlots(tbl) : tbl[i].ip = last.ip}) = 1
    /\ (last.op = "get" /\ last.seq = 2)
        => /\ last.hit # 0
           /\ last.mac = last.expect

\* the lookup after two inserts of ip with different macs returned a record
C3_Witness ==
    /\ last.op = "get"
    /\ last.seq = 2
    /\ last.hit # 0
    /\ last.changed
    /\ clock > 0

\* a step that is a call of the cache (a Tick changes the clock alone)
IsCall == <<tbl, last>>' # <<tbl, last>>

\* An insert of an address with no valid record younger than ARPLIVE takes
\* the not-found path: a slot holds the fresh record.
InsertOfStaleIsFresh ==
    (/\ IsCall
     /\ last'.op = "insert"
     /\ \A i \in ValidSlots(tbl) :
            tbl[i].ip = last'.ip => tbl[i].ctime + ARPLIVE < last'.scan)
        => /\ last'.hit = 0
           /\ tbl'[last'.slot] =
                [is_valid |-> TRUE, age |-> 0, ip |-> last'.ip,
                 mac |-> last'.mac, ctime |-> last'.now]

\* whether slot i is valid after the step only as the slot insert rewrote
RewrittenSlot(i) ==
    /\ last'.op = "insert"
    /\ last'.hit = 0
    /\ last'.slot = i

\* C4 as stated: every call invalidates every valid record older than
\* ARPLIVE, whatever the address looked up.
C4_EveryScanInvalidates ==
    [][ /\ \A i \in ValidSlots(tbl) :
              (IsCall /\ tbl[i].ctime + ARPLIVE < last'.scan)
                  => (~tbl'[i].is_valid \/ RewrittenSlot(i))
        /\ InsertOfStaleIsFresh
      ]_vars

\* C4, amended: a call invalidates every valid record older than ARPLIVE
\* that its scan reaches, that is unless the scan stopped at a hit in an
\* earlier slot; and an insert of an address with no valid record younger
\* than ARPLIVE takes the not-found path.
C4_ReachedScanInvalidates ==
    [][ /\ \A i \in ValidSlots(tbl) :
              (/\ IsCall
               /\ tbl[i].ctime + ARPLIVE < last'.scan
               /\ (last'.hit = 0 \/ i < last'.hit))
                  => (~tbl'[i].is_valid \/ RewrittenSlot(i))
        /\ InsertOfStaleIsFresh
      ]_vars

\* an insert of an address whose valid record was older than ARPLIVE took
\* the not-found path
C4_Witness ==
    /\ last.op = "insert"
    /\ last.stale
    /\ last.hit = 0
    /\ tbl[last.slot].ctime = last.now
    /\ tbl[last.slot].age = 0

\* the least and the greatest of a set of slots
FirstOf(S) == CHOOSE i \in S : \A j \in S : i <= j

LastOf(S) == CHOOSE i \in S : \A j \in S : j <= i

\* C16 as stated: an insert that evicts overwrites the first of the slots
\* of greatest age.
C16_EvictsFirstOfOldest ==
    (last.op = "insert" /\ last.evict # {})
        => last.slot = FirstOf(last.evict)

\* C16, amended: an insert that evicts overwrites the last of the slots of
\* greatest age.
C16_EvictsLastOfOldest ==
    (last.op = "insert" /\ last.evict # {})
        => /\ last.hit = 0
           /\ last.slot = LastOf(last.evict)
           /\ tbl[last.slot].ip = last.ip
           /\ tbl[last.slot].age = 0

\* an insert evicted when every slot was of the same age
C16_Witness ==
    /\ last.op = "insert"
    /\ last.evict = Slots(tbl)
    /\ last.slot = TblSz
    /\ \A i \in Slots(tbl) : i # last.slot => tbl[i].age > 0

\* whether slot i holds a valid record not older than ARPLIVE when the call
\* of the step scans
LiveSlot(i) == tbl[i].is_valid /\ ~(tbl[i].ctime + ARPLIVE < last'.scan)

\* an age one greater, 65535 staying 65535
OneOlder(age) == IF age = 65535 THEN 65535 ELSE age + 1

\* C18: get_mut_and_update(ip) hits the valid record of ip not older than
\* ARPLIVE, if there is one; a hit at slot h leaves age 0 there, makes every
\* such record before h one older and leaves the records behind h as they
\* were; a miss makes every such record one older; 65535 stays 65535 and no
\* age exceeds it.
C18_ScanAgesSaturating ==
    [][ (IsCall /\ last'.op = "get")
            => LET h == last'.hit IN
               /\ (h = 0) <=> ~\E i \in Slots(tbl) :
                                LiveSlot(i) /\ tbl[i].ip = last'.ip
               /\ h # 0 => /\ LiveSlot(h)
                           /\ tbl[h].ip = last'.ip
                           /\ tbl'[h].age = 0
               /\ \A i \in Slots(tbl) :
                    (LiveSlot(i) /\ (h = 0 \/ i < h))
                        => tbl'[i].age = OneOlder(tbl[i].age)
               /\ \A i \in Slots(tbl) :
                    (h # 0 /\ i > h) => tbl'[i] = tbl[i]
               /\ \A i \in Slots(tbl) : tbl'[i].age \in 0..65535
      ]_vars

\* a lookup hit the second slot after passing over a record in the first
\* that is 65535 scans old and still valid
C18_Witness ==
    /\ last.op = "get"
    /\ last.hit = 2
    /\ tbl[2].age = 0
    /\ tbl[1].is_valid
    /\ tbl[1].age = 65535

\* whether slot i of the table is free for the insert of the step: invalid,
\* or older than ARPLIVE when the call scans
FreeSlot(i) == ~tbl[i].is_valid \/ tbl[i].ctime + ARPLIVE < last'.scan

\* C19: an insert of an address that has no valid record younger than
\* ARPLIVE, made when a slot is invalid or expired, writes the mapping into
\* the first such slot, and every other valid record younger than ARPLIVE
\* keeps its ip, its mac and its validity.
C19_FirstInvalidSlotIsTaken ==
    [][ (/\ IsCall
         /\ last'.op = "insert"
         /\ \A i \in Slots(tbl) : tbl[i].ip = last'.ip => FreeSlot(i)
         /\ \E i \in Slots(tbl) : FreeSlot(i))
            => LET dest == FirstOf({i \in Slots(tbl) : FreeSlot(i)}) IN
               /\ last'.hit = 0
               /\ last'.slot = dest
               /\ tbl'[dest] =
                    [is_valid |-> TRUE, age |-> 0, ip |-> last'.ip,
                     mac |-> last'.mac, ctime |-> last'.now]
               /\ \A j \in Slots(tbl) \ {dest} :
                    ~FreeSlot(j)
                        => /\ tbl'[j].is_valid
                           /\ tbl'[j].ip = tbl[j].ip
                           /\ tbl'[j].mac = tbl[j].mac
      ]_vars

\* an insert took a later slot, the first invalid one, behind valid records
\* of other addresses, after time passed
C19_Witness ==
    /\ last.op = "insert"
    /\ last.hit = 0
    /\ last.evict = {}
    /\ last.slot > 1
    /\ \A i \in 1..(last.slot - 1) : tbl[i].is_valid /\ tbl[i].ip # last.ip
    /\ clock > 0

----------------------------------------------------------------------------
(* Properties of the receive path *)

\* whether t maps ip to mac in a valid record
CacheMaps(t, ip, mac) ==
    \E i \in ValidSlots(t) : t[i].ip = ip /\ t[i].mac = mac

\* the frame holds an Ethernet header addressed to the device or to all
PassesFilter(f) ==
    /\ f.len >= ETH_HLEN
    /\ f.eth.dst \in {DevHwa, MacBROADCAST}

\* arp_input is called, on a view that holds a complete ARP header
CompleteArp(f) ==
    /\ PassesFilter(f)
    /\ f.eth.proto = ETH_P_ARP
    /\ f.len - ETH_HLEN >= ARP_HLEN

\* the call did nothing but return
NoEffect == tbl' = tbl /\ last'.tx = <<>>

\* C5 as stated: after arp_input on a complete ARP header the cache maps the
\* sender IP to the sender hardware address, whatever the operation code and
\* whatever sendto returned.
C5_ArpInputAlwaysLearns ==
    (last.op = "input" /\ CompleteArp(last.frame))
        => CacheMaps(tbl, last.frame.body.spa, last.frame.body.sha)

\* C6 as stated: input on a 42-byte ARP Request to the device's hardware
\* address for the device's IP returns Ok and the cache then maps the sender
\* IP to the sender hardware address.
C6_WhoHasMyIpIsLearned ==
    (/\ last.op = "input"
     /\ last.frame.len = ETH_HLEN + ARP_HLEN
     /\ last.frame.eth.dst = DevHwa
     /\ last.frame.eth.proto = ETH_P_ARP
     /\ last.frame.body.op = ARPOP_REQUEST
     /\ last.frame.body.tpa = DevIP)
        => /\ last.ret = "ok"
           /\ CacheMaps(tbl, last.frame.body.spa, last.frame.body.sha)

\* C7: input on a frame shorter than 14 bytes returns the error of the
\* truncated frame, leaves the cache as it was and transmits nothing.
C7_ShortFrameIsAnError ==
    [][ (last'.op = "input" /\ last'.frame.len < 14)
            => (last'.ret = "err_eth" /\ NoEffect) ]_vars

\* input refused a 13-byte frame while the cache held a record
C7_Witness ==
    /\ last.op = "input"
    /\ last.frame.len = 13
    /\ last.ret = "err_eth"
    /\ ValidSlots(tbl) # {}

\* the frame is addressed to another station, or of a type without handler,
\* or an ARP packet whose target IP is outside the subnet of the device
Irrelevant(f) ==
    /\ f.len >= ETH_HLEN
    /\ \/ f.eth.dst \notin {DevHwa, MacBROADCAST}
       \/ f.eth.proto \notin {ETH_P_IP, ETH_P_ARP}
       \/ /\ f.eth.proto = ETH_P_ARP
          /\ f.body.kind = "arp"
          /\ IpAnd(f.body.tpa, DevNetmask) # IpAnd(DevIP, DevNetmask)

\* C8 as stated: on irrelevant traffic input returns Ok, changes no record
\* and transmits nothing.
C8_IrrelevantTrafficIsNoOp ==
    [][ (last'.op = "input" /\ Irrelevant(last'.frame))
            => (last'.ret = "ok" /\ NoEffect) ]_vars

\* C9: on a frame of at least 14 bytes addressed neither to the device nor
\* to all, input returns Ok, leaves the cache as it was and transmits
\* nothing, whatever the type field and the payload.
C9_ForeignDestinationIsDropped ==
    [][ (/\ last'.op = "input"
         /\ last'.frame.len >= 14
         /\ last'.frame.eth.dst # DevHwa
         /\ last'.frame.eth.dst # MacBROADCAST)
            => (last'.ret = "ok" /\ NoEffect) ]_vars

\* input dropped a truncated ARP frame addressed to another station while
\* the cache held a record
C9_Witness ==
    /\ last.op = "input"
    /\ last.frame.eth.dst = PeerMac
    /\ last.frame.eth.proto = ETH_P_ARP
    /\ last.frame.len < ETH_HLEN + ARP_HLEN
    /\ last.ret = "ok"
    /\ ValidSlots(tbl) # {}

----------------------------------------------------------------------------
(* Properties of link output *)

\* C10: when no sendto fails, linkoutput on a chain of k segments returns Ok
\* after exactly k calls of sendto, the i-th on the whole slice of the phy
\* view of the i-th segment.
C10_OneSendPerSegmentInOrder ==
    (/\ last.op = "linkoutput"
     /\ \A i \in 1..Len(last.tx) : last.tx[i].res # "err")
        => /\ last.ret = "ok"
           /\ Len(last.tx) = Len(last.chain)
           /\ \A i \in 1..Len(last.chain) :
                last.tx[i].slice =
                    [data |-> last.chain[i].data,
                     off |-> last.chain[i].phy.off,
                     len |-> last.chain[i].phy.len]

\* linkoutput returned Ok on a chain of three different segments
C10_Witness ==
    /\ last.op = "linkoutput"
    /\ last.ret = "ok"
    /\ Len(last.chain) = 3
    /\ Cardinality({last.chain[i] : i \in 1..3}) = 3

\* C11 as stated: a send that sendto reports short is followed by a send of
\* the rest of the same segment, before the next segment is sent or the
\* call returns.
C11_ShortWriteIsRetried ==
    last.op = "linkoutput"
        => \A i \in 1..Len(last.tx) :
              last.tx[i].res = "short"
                  => /\ i < Len(last.tx)
                     /\ last.tx[i + 1].slice.data = last.tx[i].slice.data
                     /\ last.tx[i + 1].slice.off > last.tx[i].slice.off

----------------------------------------------------------------------------
(* Properties of the ARP requests sent *)

\* the ARP header of the i-th frame the latest call handed to sendto
SentArp(i) == last.tx[i].slice.data.body

\* the Ethernet header of that frame
SentEth(i) == last.tx[i].slice.data.eth

\* C12 as stated: every frame arp_request transmits has the broadcast
\* address as its Ethernet destination and a zero target hardware address.
C12_RequestIsBroadcast ==
    (last.op = "input" /\ last.tx # <<>>)
        => \A i \in 1..Len(last.tx) :
              /\ SentEth(i).dst = MacBROADCAST
              /\ SentArp(i).tha = MacZERO

\* C13: the request arp_input issues for target IP tip names tip as its
\* target IP when the first three octets of tip are those of the device's IP
\* (the netmask is 255.255.255.0), and the netmask otherwise; its sender IP
\* and sender hardware address are the device's.
C13_OffSubnetTargetIsNetmask ==
    (last.op = "input" /\ last.tx # <<>>)
        => \A i \in 1..Len(last.tx) :
              LET tip == last.frame.body.tpa IN
              /\ SentArp(i).tpa = IF \A k \in 1..3 : tip[k] = DevIP[k]
                                  THEN tip ELSE DevNetmask
              /\ SentArp(i).spa = DevIP
              /\ SentArp(i).sha = DevHwa

\* a request for an address outside the subnet went out with the netmask as
\* target, and one for a neighbour with the neighbour as target
C13_Witness ==
    /\ last.op = "input"
    /\ last.tx # <<>>
    /\ last.frame.body.tpa = ForeignIP
    /\ SentArp(1).tpa = DevNetmask
    /\ SentArp(1).tpa # PeerIP

----------------------------------------------------------------------------
(* Properties of the packet buffers *)

\* the size of the header of that name
HeaderSize(hdr) ==
    CASE hdr = "Eth" -> 14
      [] hdr = "IPv4" -> 20
      [] hdr = "ARP" -> 28

\* the buffers the latest input call worked on: the frame's and those it
\* allocated for output
BuffersOfCall == {last.b} \cup {last.out[k] : k \in 1..Len(last.out)}

\* the header accesses of the latest input call
AccessesOfCall == UNION {{b.acc[i] : i \in 1..Len(b.acc)} : b \in BuffersOfCall}

\* the latest call returned error ret, left the cache the same and sent
\* nothing
FailedWith(ret) == last.ret = ret /\ last.same /\ last.tx = <<>>

\* C14: every header input, arp_input and arp_output read or wrote went
\* through a view with at least the header's size left (14, 20, 28 bytes);
\* a frame too short for the Ethernet header, or one that passes the filter
\* and is too short for the IPv4 or ARP header its type announces, makes
\* input return the error with the cache unchanged and nothing sent.
C14_NoHeaderBeyondTheView ==
    last.op = "input"
        => /\ \A a \in AccessesOfCall : a.rem >= HeaderSize(a.hdr)
           /\ last.frame.len < 14 => FailedWith("err_eth")
           /\ (/\ PassesFilter(last.frame)
               /\ last.frame.eth.proto = ETH_P_IP
               /\ last.frame.len - 14 < 20) => FailedWith("err_ipv4")
           /\ (/\ PassesFilter(last.frame)
               /\ last.frame.eth.proto = ETH_P_ARP
               /\ last.frame.len - 14 < 28) => FailedWith("err_arp")

\* input refused an ARP frame one byte short after reading its Ethernet
\* header, while the cache held a record
C14_Witness ==
    /\ last.op = "input"
    /\ last.ret = "err_arp"
    /\ last.frame.len = 41
    /\ last.b.acc = <<[hdr |-> "Eth", size |-> 14, rem |-> 41]>>
    /\ ValidSlots(tbl) # {}

\* whether no cell occurs twice in the sequence of cells set
SetOnce(sets) == \A i, j \in 1..Len(sets) : sets[i] = sets[j] => i = j

\* C15: a set of a cell that holds a value panics and leaves the value, a
\* set of an empty cell stores the value; input, arp_input and arp_output
\* set no cell of a buffer twice and never panic, and whenever arp_input
\* runs, nh of its buffer is set.
C15_CellsAreWriteOnce ==
    /\ (last.op = "skb" /\ last.call = "set")
        => IF last.was # <<>>
               THEN last.b.panic /\ last.b.skb[last.fld] = last.was
           ELSE ~last.b.panic /\ last.b.skb[last.fld] = <<last.v>>
    /\ last.op = "input"
        => /\ last.ret # "panic"
           /\ \A b \in BuffersOfCall : ~b.panic /\ SetOnce(b.sets)
           /\ (PassesFilter(last.frame) /\ last.frame.eth.proto = ETH_P_ARP)
                => last.b.skb.nh # <<>>

\* after frames were received and learned from, a second set of nh on a
\* buffer panicked
C15_Witness ==
    /\ last.op = "skb"
    /\ last.call = "set"
    /\ last.fld = "nh"
    /\ last.was # <<>>
    /\ last.was # <<last.v>>
    /\ last.b.panic
    /\ ValidSlots(tbl) # {}

----------------------------------------------------------------------------
(* Properties of learning and of answering ARP *)

\* C17: after input on a frame that passes the filter, has EtherType IPv4
\* and at least 20 bytes behind the Ethernet header, the call has returned
\* Ok and sent nothing and the cache maps the source IP of the packet to the
\* source hardware address of the frame.
C17_Ipv4SenderIsLearned ==
    (/\ last.op = "input"
     /\ PassesFilter(last.frame)
     /\ last.frame.eth.proto = ETH_P_IP
     /\ last.frame.len - 14 >= 20)
        => /\ last.ret = "ok"
           /\ last.tx = <<>>
           /\ CacheMaps(tbl, last.frame.body.src, last.frame.eth.src)

\* the cache learned a sender outside the subnet from a packet for another
\* host, next to the neighbour it knew
C17_Witness ==
    /\ last.op = "input"
    /\ last.frame.eth.proto = ETH_P_IP
    /\ last.frame.len = ETH_HLEN + IPV4_HLEN
    /\ last.frame.body.src = ForeignIP
    /\ last.frame.body.dst = ForeignIP
    /\ CacheMaps(tbl, ForeignIP, last.frame.eth.src)
    /\ \E m \in {PeerMac, OtherMac} : CacheMaps(tbl, PeerIP, m)

\* C20: input on a complete ARP packet with operation code Request calls
\* sendto exactly once, on an ARP request whose target IP is the packet's
\* target IP, or the netmask when that is outside the subnet; with any other
\* operation code it sends nothing, returns Ok and the cache maps the sender.
C20_OnlyRequestsAreAnswered ==
    (last.op = "input" /\ CompleteArp(last.frame))
        => LET arph == last.frame.body IN
           IF arph.op = 1
               THEN /\ Len(last.tx) = 1
                    /\ SentArp(1).op = 1
                    /\ SentArp(1).tpa \in {arph.tpa, DevNetmask}
                    /\ arph.tpa = DevIP => SentArp(1).tpa = DevIP
           ELSE /\ last.tx = <<>>
                /\ last.ret = "ok"
                /\ CacheMaps(tbl, arph.spa, arph.sha)

\* a Request for the device's own IP was answered with a request for that
\* IP, which went out in full
C20_Witness ==
    /\ last.op = "input"
    /\ CompleteArp(last.frame)
    /\ last.frame.body.op = 1
    /\ last.frame.body.tpa = DevIP
    /\ last.ret = "ok"
    /\ Len(last.tx) = 1
    /\ SentArp(1).tpa = DevIP

----------------------------------------------------------------------------
(* Failures of the link output, the frame of arp_output, unhandled types *)

\* C21: when sendto fails on segment i of a chain, linkoutput returns that
\* error, the failed call is the last one made (no segment behind i is
\* passed to sendto), and the calls made are those of segments 1..i, each
\* once and in order (no segment before i is sent again).
C21_SendErrorEndsTheCall ==
    last.op = "linkoutput"
        => \A i \in 1..Len(last.tx) :
              last.tx[i].res = "err"
                  => /\ last.ret = "err_socket"
                     /\ Len(last.tx) = i
                     /\ i <= Len(last.chain)
                     /\ \A k \in 1..i :
                          last.tx[k].slice =
                              [data |-> last.chain[k].data,
                               off |-> last.chain[k].phy.off,
                               len |-> last.chain[k].phy.len]

\* sendto failed on the second of three distinct segments
C21_Witness ==
    /\ last.op = "linkoutput"
    /\ Len(last.chain) = 3
    /\ Cardinality({last.chain[i] : i \in 1..3}) = 3
    /\ Len(last.tx) = 2
    /\ last.tx[1].res # "err"
    /\ last.tx[2].res = "err"
    /\ last.ret = "err_socket"

\* C22: an arp_output call that succeeded made one call of sendto, on the
\* whole 60-byte buffer from offset 0, the Ethernet header first; the phy
\* view of the buffer is still the whole buffer after the headers were
\* written, and nh is the view behind the Ethernet header.
C22_WholeFrameInOneSegment ==
    (last.op = "input" /\ last.out # <<>> /\ last.ret = "ok")
        => /\ Len(last.tx) = 1
           /\ last.tx[1].slice.off = 0
           /\ last.tx[1].slice.len = ETH_ZLEN
           /\ last.tx[1].slice.data.eth.proto = ETH_P_ARP
           /\ Len(last.out) = 1
           /\ last.out[1].skb.phy = <<View(0, ETH_ZLEN)>>
           /\ last.out[1].skb.nh = <<View(ETH_HLEN, ETH_ZLEN - ETH_HLEN)>>

\* a request was sent in full and arp_input returned Ok
C22_Witness ==
    /\ last.op = "input"
    /\ last.ret = "ok"
    /\ Len(last.out) = 1
    /\ Len(last.tx) = 1
    /\ last.tx[1].res = "full"
    /\ {"Eth", "ARP"} \subseteq
           {last.out[1].acc[k].hdr : k \in 1..Len(last.out[1].acc)}

\* the type field is a legacy 802.3 length, an undefined value or an
\* EtherType other than IPv4 and ARP
UnhandledType(proto) ==
    \/ proto <= ETH_DATA_LEN
    \/ proto \notin {ETH_P_IP, ETH_P_ARP}

\* C23: on a frame that passes the destination filter and whose type field
\* is a legacy length, an undefined value or an EtherType other than IPv4
\* and ARP, input returns Ok, leaves the cache as it was and sends nothing.
C23_UnhandledTypeIsSkipped ==
    (/\ last.op = "input"
     /\ PassesFilter(last.frame)
     /\ UnhandledType(last.frame.eth.proto))
        => (last.ret = "ok" /\ last.same /\ last.tx = <<>>)

\* an IPv6 frame addressed to the device went through input up to the type
C23_Witness ==
    /\ last.op = "input"
    /\ last.frame.eth.dst = DevHwa
    /\ last.frame.eth.proto = ETH_P_IPV6
    /\ last.ret = "ok"
    /\ last.b.skb.nh # <<>>

----------------------------------------------------------------------------
(* Eviction and the record touched last *)

\* C24: in the table of 10 slots, an insert of a new address that overwrites
\* a valid record does not overwrite the record the call before hit or
\* wrote: that record is still in its slot, valid and of the same address,
\* however many records share the greatest age.
C24_LatestTouchedSurvives ==
    (last.op = "insert" /\ last.evicted /\ last.prev # 0)
        => /\ last.touched # last.prev
           /\ tbl[last.prev].is_valid
           /\ tbl[last.prev].ip = last.previp

\* an eviction right after a lookup hit, all ten records being equally old
C24_Witness ==
    /\ last.op = "insert"
    /\ last.evicted
    /\ last.prev = 1
    /\ last.tie = ARP_TBL_SZ
    /\ Len(tbl) = ARP_TBL_SZ

----------------------------------------------------------------------------
(* Lookup hits and the lifetime of a record *)

\* the slots whose timestamp the step leaves alone keep it, and no such slot
\* becomes valid
KeepsTimestamps(S) ==
    \A i \in S : /\ tbl'[i].ctime = tbl[i].ctime
                 /\ tbl'[i].is_valid => tbl[i].is_valid

\* C25: a lookup writes no timestamp, and the record it hits is the record
\* as it was with age 0, hit only while no older than ARPLIVE since its
\* insert; an insert writes the timestamp of the slot it writes, the time of
\* the call, and no other; and a record older than ARPLIVE that a scan
\* reaches is invalid after the call (or is the slot the insert rewrote),
\* whatever hits it had.
C25_OnlyInsertExtendsLifetime ==
    [][ IsCall =>
        /\ last'.op = "get" =>
            /\ KeepsTimestamps(Slots(tbl))
            /\ last'.hit # 0 =>
                /\ tbl[last'.hit].ctime + ARPLIVE >= last'.scan
                /\ tbl'[last'.hit] = [tbl[last'.hit] EXCEPT !.age = 0]
        /\ last'.op = "insert" =>
            /\ KeepsTimestamps(Slots(tbl) \ {last'.slot})
            /\ tbl'[last'.slot].ctime = last'.now
        /\ \A i \in ValidSlots(tbl) :
              (/\ tbl[i].ctime + ARPLIVE < last'.scan
               /\ (last'.hit = 0 \/ i <= last'.hit))
                  => (~tbl'[i].is_valid \/ RewrittenSlot(i))
      ]_vars

\* a lookup hit a record ARPLIVE after its insert and left the timestamp
C25_Witness ==
    /\ last.op = "get"
    /\ last.hit # 0
    /\ clock > 0
    /\ tbl[last.hit].ctime + ARPLIVE = clock
    /\ tbl[last.hit].age = 0

----------------------------------------------------------------------------
(* The ping tool: the assertion of is_expired, the counters, the window *)

\* C26 as stated: every record the latest remove_expired called is_expired
\* on was stamped before the time that remove_expired read.
C26_AssertionHolds == \A rec \in hist.seen : hist.now > rec.sent

\* the requests still waiting for a reply
Pending == Range(stats.tbl)

\* C27: sent_cnt = recv_cnt + lost_cnt + the length of the pending table, so
\* cwnd() is that length; recv_cnt and lost_cnt count the requests that
\* remove and remove_expired took out of the table, each once (a reply that
\* matches no pending request counts nothing), and no request is among the
\* received and the lost, or among these and the pending.
C27_CountersAddUp ==
    /\ stats.sent_cnt = stats.recv_cnt + stats.lost_cnt + Len(stats.tbl)
    /\ stats.sent_cnt >= stats.recv_cnt + stats.lost_cnt
    /\ cwnd(stats) = Len(stats.tbl) % (U16_MAX + 1)
    /\ stats.recv_cnt = Cardinality(hist.received)
    /\ stats.lost_cnt = Cardinality(hist.lost)
    /\ Len(stats.tbl) = Cardinality(Pending)
    /\ hist.received \cap hist.lost = {}
    /\ (hist.received \cup hist.lost) \cap Pending = {}

\* one request was answered, one expired, and a reply came that matched no
\* pending request
C27_Witness ==
    /\ stats.recv_cnt = 1
    /\ stats.lost_cnt = 1
    /\ stats.sent_cnt = 2
    /\ hist.stray

\* C28 as stated: a request other than the first is sent only after cwnd()
\* showed at most the window, and the requests outstanding are never more
\* than the window plus one.
C28_OutstandingWithinWindow ==
    /\ (thr.send.pc = "push" /\ stats.sent_cnt > 0) => hist.cwnd <= cli.window
    /\ Len(stats.tbl) <= cli.window + 1

\* C29 as stated: once a signal is recorded, both loops stop in the end and
\* the final statistics are printed.
C29_SignalEndsInStatistics ==
    (ctlsigs # {}) ~> (thr.main = "printed")

====
